---- MODULE Spec2Model ----
\* A model of the SimpleLogger header (LogLevel, SimpleLogger, NullLogger,
\* null_logger, normalize) together with the ConsoleLogger implementer and the
\* library entry point semantic_analysis given in the README.
EXTENDS Integers, Sequences, FiniteSets, TLC

\* ------------------------------------------------------------------ bounds
\* Lines std::cout may receive in one run of the library client.
MaxOut == 2
\* log calls the application feeds to its ConsoleLogger in one run.
MaxCalls == 3
\* Threads calling null_logger() concurrently.
NThreads == 3

\* --------------------------------------------------------------- LogLevel
\* enum class LogLevel { Info, Debug, Trace }: enumerators take 0, 1, 2 and the
\* built-in relational operators compare those values.
Info == 0
Debug == 1
Trace == 2
LogLevel == {Info, Debug, Trace}

\* Messages handed to the logger (std::string_view contents).
Message == {"a", "b", "c"}

\* ---------------------------------------------------------------- objects
\* Pointer values: the null pointer, the application's ConsoleLogger object and
\* the function-local static NullLogger of null_logger().
nullptr == "nullptr"
console == "console"
instance == "instance"
Objects == {console, instance}
Threads == 1..NThreads

VARIABLES
    current_level,  \* ConsoleLogger::current_level of the console object
    cout,           \* the lines written to std::cout, in order
    guard,          \* initialisation state of the static instance
    constructed,    \* how many times NullLogger's constructor has run
    param,          \* semantic_analysis: the pointer the caller passed
    logger,         \* semantic_analysis: logger after logger = normalize(logger)
    step,           \* the last call made: operation, receiver, arguments, result
    lastSet,        \* history: argument of the latest set_log_level per object
    since,          \* history: log calls on console since its latest set_log_level
    base,           \* history: Len(cout) at console's latest set_log_level
    ncalls,         \* history: log calls the application has fed to console
    pc,             \* per thread: position inside null_logger()
    result          \* per thread: the pointer null_logger() returned last

vars == <<current_level, cout, guard, constructed, param, logger, step,
          lastSet, since, base, ncalls, pc, result>>

hist == <<since, base, ncalls>>

\* What one call does: the value returned, the lines written to std::cout,
\* console's current_level afterwards, and the calls of the virtual log made.
Effect(ret, emitted, level, calls) ==
    [ret |-> ret, emitted |-> emitted, current_level |-> level, calls |-> calls]

\* ---------------------------------------------------------- ConsoleLogger
ConsoleLogger_get_log_level ==
    Effect(current_level, <<>>, current_level, <<>>)

ConsoleLogger_set_log_level(level) ==
    Effect("void", <<>>, level, <<>>)

ConsoleLogger_prefix(level) ==
    IF level = Debug THEN "[DEBUG] " ELSE "[INFO] "

\* Fault variant: log adopts the level of the message as the threshold.
ConsoleLogger_log_sets_level(level, message) ==
    IF level >= current_level
    THEN Effect("void",
                <<[prefix |-> ConsoleLogger_prefix(level), message |-> message]>>,
                level, <<>>)
    ELSE Effect("void", <<>>, level, <<>>)

ConsoleLogger_log(level, message) ==
    IF level >= current_level
    THEN Effect("void",
                <<[prefix |-> ConsoleLogger_prefix(level), message |-> message]>>,
                current_level, <<>>)
    ELSE Effect("void", <<>>, current_level, <<>>)

\* ------------------------------------------------------------- NullLogger
\* Fault variant: the NullLogger keeps the level it was last given.
NullLogger_get_log_level_retained ==
    Effect(lastSet[instance], <<>>, current_level, <<>>)

NullLogger_get_log_level ==
    Effect(Info, <<>>, current_level, <<>>)

NullLogger_set_log_level(level) ==
    Effect("void", <<>>, current_level, <<>>)

\* Fault variant: the NullLogger writes like the ConsoleLogger.
NullLogger_log_writes(level, message) ==
    ConsoleLogger_log(level, message)

NullLogger_log(level, message) ==
    Effect("void", <<>>, current_level, <<>>)

\* Fault variant: the NullLogger keeps the base class's answer.
NullLogger_is_active_default ==
    Effect(TRUE, <<>>, current_level, <<>>)

NullLogger_is_active ==
    Effect(FALSE, <<>>, current_level, <<>>)

\* ----------------------------------------------------------- SimpleLogger
\* The default is_active of the base class; ConsoleLogger does not override it.
SimpleLogger_is_active ==
    Effect(TRUE, <<>>, current_level, <<>>)

\* Virtual dispatch on the dynamic type of *this.
get_log_level(this) ==
    IF this = instance THEN NullLogger_get_log_level
    ELSE ConsoleLogger_get_log_level

set_log_level(this, level) ==
    IF this = instance THEN NullLogger_set_log_level(level)
    ELSE ConsoleLogger_set_log_level(level)

log(this, level, message) ==
    LET e == IF this = instance THEN NullLogger_log(level, message)
             ELSE ConsoleLogger_log(level, message)
    IN  [e EXCEPT !.calls =
            <<[this |-> this, level |-> level, message |-> message]>>]

is_active(this) ==
    IF this = instance THEN NullLogger_is_active
    ELSE SimpleLogger_is_active

\* The non-virtual convenience members.
info(this, message) == log(this, Info, message)

\* Fault variant: debug forwards with the level of info.
debug_as_info(this, message) == log(this, Info, message)

debug(this, message) == log(this, Debug, message)

trace(this, message) == log(this, Trace, message)

\* ------------------------------------------------- null_logger, normalize
\* Fault variant: an unguarded test-then-construct of the static.
GuardAcquire_unguarded(g) ==
    IF g = "done" THEN "skip" ELSE "construct"

\* static NullLogger instance; the first caller to find the guard clear
\* constructs, a caller that finds construction under way waits for it, and
\* a caller that finds it complete goes straight to the return.
GuardAcquire(g) ==
    CASE g = "uninit" -> "construct"
      [] g = "constructing" -> "wait"
      [] g = "done" -> "skip"

\* return &instance;
null_logger == instance

\* Fault variant: the condition of the conditional is inverted.
normalize_inverted(p) == IF p = nullptr THEN p ELSE null_logger

\* return logger ? logger : null_logger();
normalize(p) == IF p # nullptr THEN p ELSE null_logger

\* ------------------------------------------------------------------- Init
NoStep == [op |-> "none", this |-> nullptr, level |-> Info, message |-> "",
           ret |-> "void", emitted |-> <<>>, calls |-> <<>>]

Init ==
    /\ current_level = Info
    /\ cout = <<>>
    /\ guard = "uninit"
    /\ constructed = 0
    /\ param = nullptr
    /\ logger = "unset"
    /\ step = NoStep
    /\ lastSet = [o \in Objects |-> Info]
    /\ since = <<>>
    /\ base = 0
    /\ ncalls = 0
    /\ pc = [t \in Threads |-> "idle"]
    /\ result = [t \in Threads |-> "unset"]

\* Objects a caller can hold a pointer to: console always, instance once
\* null_logger() has returned its address.
Callable == {console} \cup (IF guard = "done" THEN {instance} ELSE {})

\* The state change common to every member call with effect e.
Apply(op, this, level, message, e) ==
    /\ current_level' = e.current_level
    /\ cout' = cout \o e.emitted
    /\ step' = [op |-> op, this |-> this, level |-> level, message |-> message,
                ret |-> e.ret, emitted |-> e.emitted, calls |-> e.calls]
    /\ UNCHANGED <<guard, constructed, param, logger, pc, result>>

Log(this, level, message) ==
    /\ Apply("log", this, level, message, log(this, level, message))
    /\ UNCHANGED lastSet

InfoCall(this, message) ==
    /\ Apply("info", this, Info, message, info(this, message))
    /\ UNCHANGED lastSet

DebugCall(this, message) ==
    /\ Apply("debug", this, Debug, message, debug(this, message))
    /\ UNCHANGED lastSet

TraceCall(this, message) ==
    /\ Apply("trace", this, Trace, message, trace(this, message))
    /\ UNCHANGED lastSet

SetLogLevel(this, level) ==
    /\ Apply("set_log_level", this, level, "", set_log_level(this, level))
    /\ lastSet' = [lastSet EXCEPT ![this] = level]

GetLogLevel(this) ==
    /\ Apply("get_log_level", this, Info, "", get_log_level(this))
    /\ UNCHANGED lastSet

IsActive(this) ==
    /\ Apply("is_active", this, Info, "", is_active(this))
    /\ UNCHANGED lastSet

\* ------------------------------------------- library client (sequential)
\* Any sequence of calls on the objects the caller can reach.
CallLog ==
    \E this \in Callable, level \in LogLevel, message \in Message :
        /\ Len(cout) < MaxOut
        /\ Log(this, level, message)
        /\ UNCHANGED hist

CallInfo ==
    \E this \in Callable, message \in Message :
        /\ Len(cout) < MaxOut
        /\ InfoCall(this, message)
        /\ UNCHANGED hist

CallDebug ==
    \E this \in Callable, message \in Message :
        /\ Len(cout) < MaxOut
        /\ DebugCall(this, message)
        /\ UNCHANGED hist

CallTrace ==
    \E this \in Callable, message \in Message :
        /\ Len(cout) < MaxOut
        /\ TraceCall(this, message)
        /\ UNCHANGED hist

CallSetLogLevel ==
    \E this \in Callable, level \in LogLevel :
        /\ SetLogLevel(this, level)
        /\ UNCHANGED hist

CallGetLogLevel ==
    \E this \in Callable :
        /\ GetLogLevel(this)
        /\ UNCHANGED hist

CallIsActive ==
    \E this \in Callable :
        /\ IsActive(this)
        /\ UNCHANGED hist

\* A single-threaded pass through the declaration of the static: it is
\* constructed on the first pass only.
InitStatic ==
    /\ guard' = "done"
    /\ constructed' = IF GuardAcquire(guard) = "construct"
                      THEN constructed + 1 ELSE constructed

CallNullLogger ==
    /\ InitStatic
    /\ step' = [NoStep EXCEPT !.op = "null_logger", !.ret = null_logger]
    /\ UNCHANGED <<current_level, cout, param, logger, lastSet, hist,
                   pc, result>>

\* Entry of semantic_analysis(p): logger = normalize(logger).
CallNormalize ==
    \E p \in {nullptr, console} :
        /\ param' = p
        /\ logger' = normalize(p)
        /\ IF p # nullptr THEN UNCHANGED <<guard, constructed>> ELSE InitStatic
        /\ step' = [NoStep EXCEPT !.op = "normalize", !.this = p,
                                  !.ret = normalize(p)]
        /\ UNCHANGED <<current_level, cout, lastSet, hist, pc, result>>

Next ==
    \/ CallLog
    \/ CallInfo
    \/ CallDebug
    \/ CallTrace
    \/ CallSetLogLevel
    \/ CallGetLogLevel
    \/ CallIsActive
    \/ CallNullLogger
    \/ CallNormalize

Spec == Init /\ [][Next]_vars

\* --------------------------------------- application feeding its console
\* The application sets a threshold on its ConsoleLogger and feeds it
\* messages; the history records what was fed since the threshold was set.
Fed(level, message) ==
    /\ ncalls < MaxCalls
    /\ since' = Append(since, [level |-> level, message |-> message])
    /\ ncalls' = ncalls + 1
    /\ UNCHANGED base

FeedLog ==
    \E level \in LogLevel, message \in Message :
        Log(console, level, message) /\ Fed(level, message)

FeedInfo ==
    \E message \in Message :
        InfoCall(console, message) /\ Fed(Info, message)

FeedDebug ==
    \E message \in Message :
        DebugCall(console, message) /\ Fed(Debug, message)

FeedTrace ==
    \E message \in Message :
        TraceCall(console, message) /\ Fed(Trace, message)

FeedSetLogLevel ==
    \E level \in LogLevel :
        /\ SetLogLevel(console, level)
        /\ since' = <<>>
        /\ base' = Len(cout)
        /\ UNCHANGED ncalls

NextApp ==
    \/ FeedLog
    \/ FeedInfo
    \/ FeedDebug
    \/ FeedTrace
    \/ FeedSetLogLevel

SpecApp == Init /\ [][NextApp]_vars

\* ------------------------------------ concurrent callers of null_logger()
seq == <<current_level, cout, param, logger, step, lastSet, hist>>

\* A thread reaches the declaration of the static and tests its guard: it
\* constructs, blocks until the constructing thread is done, or goes on.
ThreadEnter(t) ==
    /\ pc[t] = "idle"
    /\ guard' = IF GuardAcquire(guard) = "construct"
                THEN "constructing" ELSE guard
    /\ pc' = [pc EXCEPT ![t] =
                CASE GuardAcquire(guard) = "construct" -> "construct"
                  [] GuardAcquire(guard) = "wait" -> "wait"
                  [] GuardAcquire(guard) = "skip" -> "return"]
    /\ UNCHANGED <<constructed, result, seq>>

\* A blocked thread is released once the guard says the static is complete.
ThreadWake(t) ==
    /\ pc[t] = "wait"
    /\ GuardAcquire(guard) = "skip"
    /\ pc' = [pc EXCEPT ![t] = "return"]
    /\ UNCHANGED <<guard, constructed, result, seq>>

\* NullLogger's constructor runs and the guard is released.
ThreadConstruct(t) ==
    /\ pc[t] = "construct"
    /\ constructed' = constructed + 1
    /\ guard' = "done"
    /\ pc' = [pc EXCEPT ![t] = "return"]
    /\ UNCHANGED <<result, seq>>

\* return &instance;
ThreadReturn(t) ==
    /\ pc[t] = "return"
    /\ result' = [result EXCEPT ![t] = null_logger]
    /\ pc' = [pc EXCEPT ![t] = "idle"]
    /\ UNCHANGED <<guard, constructed, seq>>

NextThreads ==
    \E t \in Threads :
        \/ ThreadEnter(t)
        \/ ThreadWake(t)
        \/ ThreadConstruct(t)
        \/ ThreadReturn(t)

SpecThreads == Init /\ [][NextThreads]_vars

\* ================================================================ claims
ConvenienceOps == {"info", "debug", "trace"}
LogOps == {"log"} \cup ConvenienceOps
MemberOps == LogOps \cup {"set_log_level", "get_log_level", "is_active"}

\* The level each convenience member is documented to forward with.
ForwardedLevel(op) ==
    CASE op = "info" -> Info
      [] op = "debug" -> Debug
      [] op = "trace" -> Trace

\* The prefix documented for each level.
LevelPrefix(level) ==
    CASE level = Info -> "[INFO] "
      [] level = Debug -> "[DEBUG] "
      [] level = Trace -> "[TRACE] "

Messages(s) == [i \in 1..Len(s) |-> s[i].message]

\* What console has written since its threshold was last set.
OutputSince == SubSeq(cout, base + 1, Len(cout))

\* C1: info(m), debug(m) and trace(m) on any implementer make exactly one call
\* of the virtual log, with (Info, m), (Debug, m) and (Trace, m) respectively,
\* and leave the same state, output and result as that log call made directly.
C1_ConvenienceForwardsToLog ==
    [][step'.op \in ConvenienceOps =>
         LET lvl == ForwardedLevel(step'.op)
             e == log(step'.this, lvl, step'.message)
         IN  /\ step'.calls = <<[this |-> step'.this, level |-> lvl,
                                 message |-> step'.message]>>
             /\ cout' = cout \o e.emitted
             /\ current_level' = e.current_level
             /\ step'.ret = e.ret
             /\ step'.emitted = e.emitted
             /\ UNCHANGED <<guard, constructed, param, logger, lastSet>>]_vars

C1_Witness ==
    /\ step.op = "debug"
    /\ step.this = console
    /\ step.emitted # <<>>

\* C2: normalize(nullptr) returns a constructed logger whose is_active() is
\* false, and no member call on the logger so obtained writes output or
\* changes any state a caller can observe.
C2_NormalizeAbsentIsSilent ==
    [][/\ (step'.op = "normalize" /\ step'.this = nullptr) =>
            /\ step'.ret = instance
            /\ logger' = step'.ret
            /\ guard' = "done"
            /\ is_active(step'.ret).ret = FALSE
       /\ (param = nullptr /\ logger # "unset" /\ step'.op \in MemberOps
             /\ step'.this = logger) =>
            /\ cout' = cout
            /\ step'.emitted = <<>>
            /\ current_level' = current_level
            /\ (get_log_level(logger).ret)' = get_log_level(logger).ret
            /\ (is_active(logger).ret)' = FALSE
            /\ UNCHANGED <<guard, constructed, param, logger>>]_vars

C2_Witness ==
    /\ param = nullptr
    /\ logger = instance
    /\ current_level = Trace
    /\ step.op = "trace"
    /\ step.this = logger

C4_SingleInstance ==
    /\ constructed <= 1
    /\ Cardinality({t \in Threads : pc[t] = "construct"}) <= 1
    /\ \A t \in Threads :
        /\ pc[t] = "return" => (guard = "done" /\ constructed = 1)
        /\ result[t] # "unset" =>
            /\ result[t] = instance
            /\ guard = "done"
            /\ constructed = 1
    /\ \A t, u \in Threads :
        (result[t] # "unset" /\ result[u] # "unset") => result[t] = result[u]

C4_Witness ==
    \E t, u \in Threads :
        /\ t # u
        /\ result[t] = instance
        /\ pc[u] = "wait"

\* C5: NullLogger's get_log_level() returns Info in every reachable state,
\* whatever levels set_log_level was given before.
C5_NullLoggerLevelIsInfo ==
    /\ guard = "done" => get_log_level(instance).ret = Info
    /\ (step.op = "get_log_level" /\ step.this = instance) => step.ret = Info

C5_Witness ==
    /\ step.op = "get_log_level"
    /\ step.this = instance
    /\ lastSet[instance] = Trace

\* C6: with the threshold set to Debug, feeding log(Info,"a"), log(Debug,"b"),
\* log(Trace,"c") in that order writes exactly "a" and then "b", and not "c".
C6_DebugThresholdScenario ==
    (/\ lastSet[console] = Debug
     /\ since = <<[level |-> Info, message |-> "a"],
                  [level |-> Debug, message |-> "b"],
                  [level |-> Trace, message |-> "c"]>>)
    => Messages(OutputSince) = <<"a", "b">>

\* C7: once the threshold is set to Trace, every Info, Debug and Trace message
\* fed afterwards is written, in the order of the calls.
C7_TraceThresholdWritesAll ==
    lastSet[console] = Trace => Messages(OutputSince) = Messages(since)

\* C9: a line written by ConsoleLogger carries the prefix of the level of the
\* message that produced it: "[INFO] ", "[DEBUG] " or "[TRACE] ".
C9_PrefixMatchesLevel ==
    (step.op \in LogOps /\ step.this = console /\ step.emitted # <<>>) =>
        step.emitted = <<[prefix |-> LevelPrefix(step.calls[1].level),
                          message |-> step.message]>>

\* C8: is_active() is a constant of the logger's kind: true on an implementer
\* that does not override it, whatever its threshold, and false on NullLogger;
\* and a logger whose is_active() is false writes nothing on any log call.
C8_IsActiveIsConstant ==
    /\ is_active(console).ret = TRUE
    /\ guard = "done" => is_active(instance).ret = FALSE
    /\ step.op = "is_active" => step.ret = (step.this = console)
    /\ (step.op \in LogOps /\ is_active(step.this).ret = FALSE) =>
            step.emitted = <<>>

C8_Witness ==
    /\ step.op = "trace"
    /\ step.this = instance
    /\ current_level = Trace
    /\ cout # <<>>

\* C10: ConsoleLogger's get_log_level() returns the argument of the latest
\* set_log_level call on it (Info before any); no other member call, and no
\* pass through normalize, changes the threshold.
C10_ThresholdIsLastSet ==
    /\ current_level = lastSet[console]
    /\ get_log_level(console).ret = lastSet[console]
    /\ (step.op = "get_log_level" /\ step.this = console) =>
            step.ret = lastSet[console]

C10_Witness ==
    /\ step.op = "get_log_level"
    /\ step.this = console
    /\ lastSet[console] = Debug
    /\ logger = console
    /\ cout # <<>>

====
